---- MODULE Spec2Model ----
(***************************************************************************)
(* Model of the Polyglot chat application.                                 *)
(*                                                                         *)
(*   - the relational schema of src/unnamed/part_000 (users, sessions,     *)
(*     messages, their CHECK and FOREIGN KEY constraints, the updated_at   *)
(*     trigger and the message-count trigger), driven by the statements    *)
(*     the role app_user is granted;                                       *)
(*   - the chat client of src/frontend/chat-bot/src/app/page.tsx           *)
(*     (handleSubmit and the React state it reads and writes) with the     *)
(*     ChatInput form of src/unnamed/part_000.                             *)
(*                                                                         *)
(* The two parts share no state: SpecDB runs the database statements,      *)
(* SpecClient the client's event handlers.                                 *)
(***************************************************************************)
EXTENDS Integers, Sequences, FiniteSets, TLC

\* ------------------------------------------------------------------------
\* Bounds of the model
\* ------------------------------------------------------------------------

\* The wall clock runs over 0 .. MaxClock.
MaxClock == 1

\* Largest message_count: no statement writes more explicitly, and no message
\* is inserted into a session whose counter has reached it.
MaxCount == 2

\* Message inserts counted per session while its insert/delete history is kept.
MaxInserts == 2

\* Primary keys the statements draw from (uuid_generate_v4() in the schema).
UserIds == {"u1", "u2"}
SessionIds == {"s1", "s2"}
MessageIds == {"m1", "m2"}

\* VARCHAR(10) language codes.
Languages == {"TR", "EN"}

\* Characters of a text: a space, a tab (whitespace that is not a space) and
\* a letter.
Chars == {"sp", "tab", "a"}

\* The texts a statement or the user supplies.
Contents ==
    { <<>>, <<"sp">>, <<"tab">>, <<"a">> }

\* ------------------------------------------------------------------------
\* Text functions
\* ------------------------------------------------------------------------

RECURSIVE StripLeft(_, _)
StripLeft(s, cs) ==
    IF s # <<>> /\ Head(s) \in cs THEN StripLeft(Tail(s), cs) ELSE s

RECURSIVE StripRight(_, _)
StripRight(s, cs) ==
    IF s # <<>> /\ s[Len(s)] \in cs
    THEN StripRight(SubSeq(s, 1, Len(s) - 1), cs)
    ELSE s

\* PostgreSQL TRIM(content): removes leading and trailing spaces only.
SqlTrim(s) == StripRight(StripLeft(s, {"sp"}), {"sp"})

\* Mutant: only spaces are removed.
JsTrim_spaces_only(s) == SqlTrim(s)

\* JavaScript String.prototype.trim(): removes leading and trailing white
\* space, tabs included.
JsTrim(s) == StripRight(StripLeft(s, {"sp", "tab"}), {"sp", "tab"})

\* A text that is empty or consists only of whitespace.
Blank(s) == \A i \in 1 .. Len(s) : s[i] \in {"sp", "tab"}

\* ------------------------------------------------------------------------
\* State
\* ------------------------------------------------------------------------

VARIABLES
    users,      \* table users: id -> row
    sessions,   \* table sessions: id -> row
    messages,   \* table messages: id -> row
    clock,      \* the wall clock
    txStart,    \* <<t>>: an open transaction that began at t; <<>>: none
    stmt,       \* how the last statement ended
    hist,       \* per session: its message inserts and deletes so far
    variant,    \* which Home component of page.tsx runs
    msgs,       \* useState<Message[]>: the message list
    inputValue, \* useState(""): the text of the input box
    sessionId,  \* useState<string | null>: the stored session id
    requests,   \* every fetch issued so far, with the state of its handler
    timers,     \* setTimeout callbacks not yet run, oldest first
    event       \* the last event handled

dbvars == <<users, sessions, messages, clock, txStart, stmt, hist>>

clientvars == <<variant, msgs, inputValue, sessionId, requests, timers, event>>

vars == <<dbvars, clientvars>>

\* ------------------------------------------------------------------------
\* Constraints of the schema
\* ------------------------------------------------------------------------

\* Mutant: the CHECK is missing.
users_different_languages_missing(row) == TRUE

users_different_languages(row) == row.native_language # row.target_language

messages_content_not_empty(row) == Len(SqlTrim(row.content)) > 0

\* sessions.user_id REFERENCES users(id)
sessions_user_id_fkey(row, usrs) == row.user_id \in DOMAIN usrs

\* messages.session_id REFERENCES sessions(id)
messages_session_id_fkey(row, sess) == row.session_id \in DOMAIN sess

\* ------------------------------------------------------------------------
\* Time
\* ------------------------------------------------------------------------

\* How a statement runs: on its own, or as the statement of the open
\* transaction.
TxModes == {"auto", "open"}

TxReady(tx) == tx = "auto" \/ txStart # <<>>

\* NOW() is the start time of the current transaction.
Now(tx) == IF tx = "open" THEN txStart[1] ELSE clock

\* The open transaction ends with its statement (commit, or rollback on error).
TxAfter(tx) == IF tx = "open" THEN <<>> ELSE txStart

\* A column value a statement may leave to its DEFAULT: <<>> or <<v>>.
OrDefault(supplied, default) ==
    IF supplied = <<>> THEN default ELSE supplied[1]

\* ------------------------------------------------------------------------
\* Trigger functions
\* ------------------------------------------------------------------------

\* Mutant: the BEFORE UPDATE trigger is missing.
update_updated_at_column_missing(new_row, now) == new_row

\* BEFORE UPDATE ... FOR EACH ROW on users and on sessions.
update_updated_at_column(new_row, now) == [new_row EXCEPT !.updated_at = now]

GREATEST(a, b) == IF a >= b THEN a ELSE b

\* UPDATE sessions SET ... WHERE id = sid, with its BEFORE UPDATE trigger.
UpdateSessionsWhere(sess, sid, new_row, now) ==
    IF sid \in DOMAIN sess
    THEN [sess EXCEPT ![sid] = update_updated_at_column(new_row, now)]
    ELSE sess

\* Mutant: the INSERT branch writes the counter back unchanged.
update_session_message_count_no_increment(TG_OP, sess, sid, now) ==
    IF sid \notin DOMAIN sess THEN sess
    ELSE IF TG_OP = "INSERT" THEN
        [sess EXCEPT ![sid].updated_at = now]
    ELSE IF TG_OP = "DELETE" THEN
        [sess EXCEPT ![sid].message_count = IF @ - 1 >= 0 THEN @ - 1 ELSE 0,
                     ![sid].updated_at = now]
    ELSE sess

\* Mutant: the trigger function has no DELETE branch.
update_session_message_count_no_delete(TG_OP, sess, sid, now) ==
    IF sid \in DOMAIN sess /\ TG_OP = "INSERT"
    THEN [sess EXCEPT ![sid].message_count = @ + 1, ![sid].updated_at = now]
    ELSE sess

\* AFTER INSERT / AFTER DELETE ... FOR EACH ROW on messages; sid is
\* NEW.session_id or OLD.session_id.
update_session_message_count(TG_OP, sess, sid, now) ==
    IF sid \notin DOMAIN sess THEN sess
    ELSE IF TG_OP = "INSERT" THEN
        UpdateSessionsWhere(sess, sid,
            [sess[sid] EXCEPT !.message_count = @ + 1, !.updated_at = now], now)
    ELSE IF TG_OP = "DELETE" THEN
        UpdateSessionsWhere(sess, sid,
            [sess[sid] EXCEPT !.message_count = GREATEST(@ - 1, 0),
                              !.updated_at = now], now)
    ELSE sess

\* ------------------------------------------------------------------------
\* Cascading deletes
\* ------------------------------------------------------------------------

Restrict(f, S) == [x \in S |-> f[x]]

\* The delete trigger of messages, fired for every row of `gone`.
RECURSIVE FireDeletes(_, _, _, _)
FireDeletes(sess, mtab, gone, now) ==
    IF gone = {} THEN sess
    ELSE LET m == CHOOSE x \in gone : TRUE
         IN  FireDeletes(
                 update_session_message_count("DELETE", sess,
                                              mtab[m].session_id, now),
                 mtab, gone \ {m}, now)

\* Mutant: messages.session_id without ON DELETE CASCADE.
MessagesOf_no_cascade(mtab, S) == {}

\* messages.session_id ... ON DELETE CASCADE: the messages of the sessions S.
MessagesOf(mtab, S) == {m \in DOMAIN mtab : mtab[m].session_id \in S}

\* sessions.user_id ... ON DELETE CASCADE: the sessions of the users U.
SessionsOf(sess, U) == {s \in DOMAIN sess : sess[s].user_id \in U}

\* ------------------------------------------------------------------------
\* History kept for the counters
\* ------------------------------------------------------------------------

\* hist[s].kept: s was created with message_count 0 and only message inserts
\* and deletes have touched its counter and its messages since. inserts and
\* deletes count those statements while kept.
NoHist == [kept |-> FALSE, inserts |-> 0, deletes |-> 0]

FreshHist(count) == [kept |-> count = 0, inserts |-> 0, deletes |-> 0]

DropHist(h, S) == [s \in SessionIds |-> IF s \in S THEN NoHist ELSE h[s]]

Counted(h, s, field) ==
    IF h[s].kept THEN [h EXCEPT ![s][field] = @ + 1] ELSE h

\* A statement ends "ok" or with an error that names the violated constraint;
\* `cascaded` counts the rows its ON DELETE CASCADE rules removed.
Ended(result, cascaded, tx) ==
    /\ stmt' = [result |-> result, cascaded |-> cascaded]
    /\ txStart' = TxAfter(tx)
    /\ UNCHANGED clientvars

Done(tx) == Ended("ok", 0, tx)

Failed(constraint, tx) ==
    /\ Ended(constraint, 0, tx)
    /\ UNCHANGED <<users, sessions, messages, clock, hist>>

\* ------------------------------------------------------------------------
\* Statements on users
\* ------------------------------------------------------------------------

\* INSERT INTO users (id, native_language, target_language) VALUES (...)
InsertUser(tx, u, native, target) ==
    /\ TxReady(tx)
    /\ u \notin DOMAIN users
    /\ LET row == [native_language |-> native, target_language |-> target,
                   updated_at |-> Now(tx)]
       IN  IF users_different_languages(row)
           THEN /\ users' = users @@ (u :> row)
                /\ Done(tx)
                /\ UNCHANGED <<sessions, messages, clock, hist>>
           ELSE Failed("users_different_languages", tx)

\* UPDATE users SET native_language = .., target_language = ..,
\*                  updated_at = .. WHERE id = u
UpdateUser(tx, u, native, target, updated_at) ==
    /\ TxReady(tx)
    /\ u \in DOMAIN users
    /\ LET new_row == [native_language |-> native, target_language |-> target,
                   updated_at |-> OrDefault(updated_at, users[u].updated_at)]
           row == update_updated_at_column(new_row, Now(tx))
       IN  IF users_different_languages(row)
           THEN /\ users' = [users EXCEPT ![u] = row]
                /\ Done(tx)
                /\ UNCHANGED <<sessions, messages, clock, hist>>
           ELSE Failed("users_different_languages", tx)

\* DELETE FROM users WHERE id = u
DeleteUser(tx, u) ==
    /\ TxReady(tx)
    /\ u \in DOMAIN users
    /\ LET S == SessionsOf(sessions, {u})
           M == MessagesOf(messages, S)
           left == Restrict(sessions, DOMAIN sessions \ S)
       IN  /\ users' = Restrict(users, DOMAIN users \ {u})
           /\ sessions' = FireDeletes(left, messages, M, Now(tx))
           /\ messages' = Restrict(messages, DOMAIN messages \ M)
           /\ hist' = DropHist(hist, S)
           /\ Ended("ok", Cardinality(S) + Cardinality(M), tx)
    /\ UNCHANGED clock

\* ------------------------------------------------------------------------
\* Statements on sessions
\* ------------------------------------------------------------------------

\* INSERT INTO sessions (id, user_id [, message_count] [, updated_at])
InsertSession(tx, s, user_id, message_count, updated_at) ==
    /\ TxReady(tx)
    /\ s \notin DOMAIN sessions
    /\ LET row == [user_id |-> user_id,
                   message_count |-> OrDefault(message_count, 0),
                   updated_at |-> OrDefault(updated_at, Now(tx))]
       IN  IF sessions_user_id_fkey(row, users)
           THEN /\ sessions' = sessions @@ (s :> row)
                /\ hist' = [hist EXCEPT ![s] = FreshHist(row.message_count)]
                /\ Done(tx)
                /\ UNCHANGED <<users, messages, clock>>
           ELSE Failed("sessions_user_id_fkey", tx)

\* UPDATE sessions SET user_id = .., message_count = .., updated_at = ..
\*                 WHERE id = s
UpdateSession(tx, s, user_id, message_count, updated_at) ==
    /\ TxReady(tx)
    /\ s \in DOMAIN sessions
    /\ LET new_row == [user_id |-> user_id,
                   message_count |->
                       OrDefault(message_count, sessions[s].message_count),
                   updated_at |->
                       OrDefault(updated_at, sessions[s].updated_at)]
       IN  IF sessions_user_id_fkey(new_row, users)
           THEN /\ sessions' = UpdateSessionsWhere(sessions, s, new_row, Now(tx))
                /\ hist' = IF message_count = <<>> THEN hist
                           ELSE DropHist(hist, {s})
                /\ Done(tx)
                /\ UNCHANGED <<users, messages, clock>>
           ELSE Failed("sessions_user_id_fkey", tx)

\* DELETE FROM sessions WHERE id = s
DeleteSession(tx, s) ==
    /\ TxReady(tx)
    /\ s \in DOMAIN sessions
    /\ LET M == MessagesOf(messages, {s})
           left == Restrict(sessions, DOMAIN sessions \ {s})
       IN  /\ sessions' = FireDeletes(left, messages, M, Now(tx))
           /\ messages' = Restrict(messages, DOMAIN messages \ M)
           /\ hist' = DropHist(hist, {s})
           /\ Ended("ok", Cardinality(M), tx)
    /\ UNCHANGED <<users, clock>>

\* ------------------------------------------------------------------------
\* Statements on messages
\* ------------------------------------------------------------------------

\* INSERT INTO messages (id, session_id, content) VALUES (...)
InsertMessage(tx, m, session_id, content) ==
    /\ TxReady(tx)
    /\ m \notin DOMAIN messages
    /\ hist[session_id].inserts < MaxInserts
    /\ session_id \in DOMAIN sessions =>
           sessions[session_id].message_count < MaxCount
    /\ LET row == [session_id |-> session_id, content |-> content]
       IN  IF ~messages_content_not_empty(row)
           THEN Failed("messages_content_not_empty", tx)
           ELSE IF ~messages_session_id_fkey(row, sessions)
           THEN Failed("messages_session_id_fkey", tx)
           ELSE /\ messages' = messages @@ (m :> row)
                /\ sessions' = update_session_message_count(
                                   "INSERT", sessions, session_id, Now(tx))
                /\ hist' = Counted(hist, session_id, "inserts")
                /\ Done(tx)
                /\ UNCHANGED <<users, clock>>

\* UPDATE messages SET session_id = .., content = .. WHERE id = m
UpdateMessage(tx, m, session_id, content) ==
    /\ TxReady(tx)
    /\ m \in DOMAIN messages
    /\ LET row == [session_id |-> session_id, content |-> content]
       IN  IF ~messages_content_not_empty(row)
           THEN Failed("messages_content_not_empty", tx)
           ELSE IF ~messages_session_id_fkey(row, sessions)
           THEN Failed("messages_session_id_fkey", tx)
           ELSE /\ messages' = [messages EXCEPT ![m] = row]
                /\ hist' = IF session_id = messages[m].session_id THEN hist
                           ELSE DropHist(hist, {session_id,
                                                messages[m].session_id})
                /\ Done(tx)
                /\ UNCHANGED <<users, sessions, clock>>

\* DELETE FROM messages WHERE id = m
DeleteMessage(tx, m) ==
    /\ TxReady(tx)
    /\ m \in DOMAIN messages
    /\ messages' = Restrict(messages, DOMAIN messages \ {m})
    /\ sessions' = update_session_message_count(
                       "DELETE", sessions, messages[m].session_id, Now(tx))
    /\ hist' = Counted(hist, messages[m].session_id, "deletes")
    /\ Done(tx)
    /\ UNCHANGED <<users, clock>>

\* ------------------------------------------------------------------------
\* Clock and transactions
\* ------------------------------------------------------------------------

Tick ==
    /\ clock < MaxClock
    /\ clock' = clock + 1
    /\ UNCHANGED <<users, sessions, messages, txStart, stmt, hist>>
    /\ UNCHANGED clientvars

\* BEGIN: NOW() stays at this instant until the transaction ends.
Begin ==
    /\ txStart = <<>>
    /\ txStart' = <<clock>>
    /\ UNCHANGED <<users, sessions, messages, clock, stmt, hist>>
    /\ UNCHANGED clientvars

\* ------------------------------------------------------------------------
\* Specification of the database
\* ------------------------------------------------------------------------

Times == 0 .. MaxClock

OptTimes == {<<>>} \cup {<<t>> : t \in Times}

OptCounts == {<<>>} \cup {<<n>> : n \in 0 .. MaxCount}

InitDB ==
    /\ users = <<>>
    /\ sessions = <<>>
    /\ messages = <<>>
    /\ clock = 0
    /\ txStart = <<>>
    /\ stmt = [result |-> "ok", cascaded |-> 0]
    /\ hist = [s \in SessionIds |-> NoHist]

\* Every statement app_user is granted, with its keys, columns and
\* transaction mode drawn from the given sets.
Statements(TX, U, S, M, N, T) ==
    \E tx \in TX :
        \/ \E u \in U, native \in Languages, target \in Languages :
              InsertUser(tx, u, native, target)
        \/ \E u \in U, native \in Languages, target \in Languages,
              updated_at \in T :
              UpdateUser(tx, u, native, target, updated_at)
        \/ \E u \in U : DeleteUser(tx, u)
        \/ \E s \in S, u \in U, n \in N, updated_at \in T :
              InsertSession(tx, s, u, n, updated_at)
        \/ \E s \in S, u \in U, n \in N, updated_at \in T :
              UpdateSession(tx, s, u, n, updated_at)
        \/ \E s \in S : DeleteSession(tx, s)
        \/ \E m \in M, s \in S, c \in Contents :
              InsertMessage(tx, m, s, c)
        \/ \E m \in M, s \in S, c \in Contents :
              UpdateMessage(tx, m, s, c)
        \/ \E m \in M : DeleteMessage(tx, m)

\* ------------------------------------------------------------------------
\* The chat client
\* ------------------------------------------------------------------------

\* Largest number of submits the client accepts.
MaxSubmits == 2

\* The three Home components of page.tsx.
Variants == {"memory", "simple", "simulated"}

\* Session ids the backend hands out; "null" is no session id.
Sids == {"sidA", "sidB"}

\* The text of the fallback bot message.
FallbackText ==
    <<"Sorry, I couldn't process your request. Please try again.">>

\* The text of the simulated bot message.
SimulatedText ==
    <<"That's a great goal! What would you like to write about?">>

\* Texts the backend replies with.
ReplyTexts == {<<"a">>}

\* How a fetch ends: rejected, answered with a non-2xx status, answered 2xx
\* with a body that is no JSON, answered 2xx with a JSON body.
Outcomes == {"network_error", "http_error", "bad_json", "ok"}

InitClient ==
    /\ variant \in Variants
    /\ msgs = <<>>
    /\ inputValue = <<>>
    /\ sessionId = "null"
    /\ requests = <<>>
    /\ timers = <<>>
    /\ event = [kind |-> "none", accepted |-> FALSE]

\* A message of the list. `submit` and `kind` are not fields of Message: they
\* record which submit a message belongs to and which statement appended it.
Message(text, sender, submit, kind) ==
    [text |-> text, sender |-> sender, submit |-> submit, kind |-> kind]

\* Submits accepted so far.
Submits == Cardinality({i \in 1 .. Len(msgs) : msgs[i].sender = "user"})

\* The request handleSubmit issues: the endpoint of the variant, the text and,
\* when a session id is stored, that id. `captured` is the sessionId the
\* handler's closure holds.
RequestOf(submit, currentInput) ==
    [submit |-> submit,
     url |-> variant,
     content |-> currentInput,
     session_id |-> IF variant = "memory" THEN sessionId ELSE "null",
     captured |-> IF variant = "memory" THEN sessionId ELSE "null",
     state |-> "pending"]

\* Mutant: the request is sent twice.
IssueRequest_twice(reqs, req) == Append(Append(reqs, req), req)

\* fetch(...): one request goes out.
IssueRequest(reqs, req) == Append(reqs, req)

\* Mutant: the reply is not appended.
TryBlock_no_append(list, req, text) == list

\* The end of the try block: the reply is appended.
TryBlock(list, req, text) ==
    Append(list, Message(text, "bot", req.submit, "reply"))

\* Mutant: the error is swallowed.
CatchBlock_swallow(list, req) == list

\* Mutant: the fallback message is put in front of the list.
CatchBlock_prepend(list, req) ==
    <<Message(FallbackText, "bot", req.submit, "fallback")>> \o list

\* The catch block: the fallback message is appended.
CatchBlock(list, req) ==
    Append(list, Message(FallbackText, "bot", req.submit, "fallback"))

\* if (data.session_id && !sessionId) setSessionId(data.session_id)
StoreSessionId(stored, req, sid) ==
    IF sid # "null" /\ req.captured = "null" THEN sid ELSE stored

\* handleSubmit up to its first await.
handleSubmit(kind) ==
    IF JsTrim(inputValue) = <<>>
    THEN /\ event' = [kind |-> kind, accepted |-> FALSE]
         /\ UNCHANGED <<variant, msgs, inputValue, sessionId, requests,
                        timers>>
         /\ UNCHANGED dbvars
    ELSE /\ Submits < MaxSubmits
         /\ LET submit == Submits + 1
                currentInput == inputValue
            IN  /\ msgs' = Append(msgs,
                        Message(inputValue, "user", submit, "user"))
                /\ inputValue' = <<>>
                /\ IF variant = "simulated"
                   THEN /\ timers' = Append(timers, submit)
                        /\ UNCHANGED requests
                   ELSE /\ requests' = IssueRequest(requests,
                                           RequestOf(submit, currentInput))
                        /\ UNCHANGED timers
         /\ event' = [kind |-> kind, accepted |-> TRUE]
         /\ UNCHANGED <<variant, sessionId>>
         /\ UNCHANGED dbvars

\* ChatInput: onChange of the textarea.
Change(text) ==
    /\ inputValue' = text
    /\ event' = [kind |-> "change", accepted |-> TRUE]
    /\ UNCHANGED <<variant, msgs, sessionId, requests, timers>>
    /\ UNCHANGED dbvars

\* ChatInput: Enter without Shift in the textarea.
EnterKey == handleSubmit("enter")

\* ChatInput: the send button, disabled while the input is blank.
SendButton ==
    /\ JsTrim(inputValue) # <<>>
    /\ handleSubmit("click")

\* The session id of a 2xx JSON answer: the request's own when it carried one,
\* else none or the id of the session the backend created.
AnswerSids(req) ==
    IF req.session_id # "null" THEN {req.session_id} ELSE Sids \cup {"null"}

\* handleSubmit after `await fetch(...)`: the rest of the try block, or the
\* catch block.
Answer ==
    \E i \in 1 .. Len(requests), outcome \in Outcomes :
        /\ requests[i].state = "pending"
        /\ IF outcome = "ok"
           THEN \E text \in ReplyTexts, sid \in AnswerSids(requests[i]) :
                  /\ sessionId' =
                        IF variant = "memory"
                        THEN StoreSessionId(sessionId, requests[i], sid)
                        ELSE sessionId
                  /\ msgs' = TryBlock(msgs, requests[i], text)
                  /\ requests' = [requests EXCEPT ![i].state = "ok"]
           ELSE /\ msgs' = CatchBlock(msgs, requests[i])
                /\ requests' = [requests EXCEPT ![i].state = outcome]
                /\ UNCHANGED sessionId
        /\ event' = [kind |-> "answer", accepted |-> outcome = "ok"]
        /\ UNCHANGED <<variant, inputValue, timers>>
        /\ UNCHANGED dbvars

\* The setTimeout callback of the simulated variant.
TimerFires ==
    /\ timers # <<>>
    /\ msgs' = Append(msgs,
                   Message(SimulatedText, "bot", Head(timers), "simulated"))
    /\ timers' = Tail(timers)
    /\ event' = [kind |-> "timer", accepted |-> TRUE]
    /\ UNCHANGED <<variant, inputValue, sessionId, requests>>
    /\ UNCHANGED dbvars

NextClient ==
    \/ \E text \in Contents : Change(text)
    \/ EnterKey
    \/ SendButton
    \/ Answer
    \/ TimerFires


\* ------------------------------------------------------------------------
\* Specifications
\* ------------------------------------------------------------------------

Init == InitDB /\ InitClient

\* The database with the client idle.
InitRows == Init /\ variant = "memory"

\* The rows: every statement over two users, two sessions and two messages,
\* each run on its own within one instant of the clock, with message_count
\* also written explicitly.
NextRows ==
    Statements({"auto"}, UserIds, SessionIds, MessageIds, OptCounts, {<<>>})

SpecRows == InitRows /\ [][NextRows]_vars

\* The timestamps: the clock, transactions that began earlier, and every
\* statement over one user, one session and one message, with updated_at
\* also written explicitly.
NextTime ==
    \/ Tick
    \/ Begin
    \/ Statements(TxModes, {"u1"}, {"s1"}, {"m1"}, {<<>>}, OptTimes)

SpecTime == InitRows /\ [][NextTime]_vars

\* The chat client.
SpecClient == Init /\ [][NextClient]_vars

\* The chat client when every request is eventually answered and every timer
\* eventually runs.
FairSpecClient == SpecClient /\ WF_vars(Answer) /\ WF_vars(TimerFires)

\* The whole system.
Next ==
    \/ Tick
    \/ Begin
    \/ Statements(TxModes, UserIds, SessionIds, MessageIds, OptCounts,
                  OptTimes)
    \/ NextClient

Spec == Init /\ [][Next]_vars

\* ------------------------------------------------------------------------
\* Properties of the schema
\* ------------------------------------------------------------------------

\* The message rows whose session_id is s.
RowsOf(s) == {m \in DOMAIN messages : messages[m].session_id = s}

ReferencesExist ==
    /\ \A s \in DOMAIN sessions : sessions[s].user_id \in DOMAIN users
    /\ \A m \in DOMAIN messages : messages[m].session_id \in DOMAIN sessions

\* A delete of user u removes u, the sessions of u and their messages, and
\* leaves every other row as it was.
DeleteUserCascades ==
    \A tx \in TxModes, u \in UserIds :
        DeleteUser(tx, u) =>
            LET keptS == {s \in DOMAIN sessions : sessions[s].user_id # u}
                keptM == {m \in DOMAIN messages :
                             messages[m].session_id \in keptS}
            IN  /\ users' = Restrict(users, DOMAIN users \ {u})
                /\ sessions' = Restrict(sessions, keptS)
                /\ messages' = Restrict(messages, keptM)

\* A delete of session s removes s and its messages, and leaves every other
\* row as it was.
DeleteSessionCascades ==
    \A tx \in TxModes, s \in SessionIds :
        DeleteSession(tx, s) =>
            LET keptM == {m \in DOMAIN messages : messages[m].session_id # s}
            IN  /\ users' = users
                /\ sessions' = Restrict(sessions, DOMAIN sessions \ {s})
                /\ messages' = Restrict(messages, keptM)

\* C2: deleting a user removes the user's sessions and their messages,
\* deleting a session removes its messages, the rows of other users and
\* sessions are left unchanged, and in every state each session references an
\* existing user and each message an existing session.
C2_CascadingDeletes ==
    /\ []ReferencesExist
    /\ [][DeleteUserCascades /\ DeleteSessionCascades]_vars

\* A delete has just removed three rows by cascade (a user's session and its
\* two messages), while the other user still has a session.
C2_Witness ==
    /\ stmt.cascaded = 3
    /\ Cardinality(DOMAIN users) = 1
    /\ Cardinality(DOMAIN sessions) = 1
    /\ DOMAIN messages = {}

\* C3: an insert of a message whose content is empty or only whitespace fails
\* with a constraint error and changes no table.
C3_BlankContentRejected ==
    [][\A tx \in TxModes, m \in MessageIds, s \in SessionIds, c \in Contents :
          (Blank(c) /\ InsertMessage(tx, m, s, c)) =>
              /\ stmt'.result # "ok"
              /\ UNCHANGED <<users, sessions, messages>>]_vars

\* C4: an insert of a user whose native_language equals its target_language
\* fails and adds no row, and in every state every user row has different
\* native and target languages (updates included).
C4_DifferentLanguages ==
    /\ [](\A u \in DOMAIN users :
              users[u].native_language # users[u].target_language)
    /\ [][\A tx \in TxModes, u \in UserIds, l \in Languages :
              InsertUser(tx, u, l, l) =>
                  /\ stmt'.result = "users_different_languages"
                  /\ UNCHANGED <<users, sessions, messages>>]_vars

\* A statement has just failed on users_different_languages while no user
\* exists: an insert of a user with equal languages.
C4_Witness ==
    /\ stmt.result = "users_different_languages"
    /\ DOMAIN users = {}

\* The updated_at written by a statement that runs with NOW() = now(tx).
StampedWith(now(_)) ==
    \A tx \in TxModes :
        /\ \A u \in UserIds, native \in Languages, target \in Languages,
              updated_at \in OptTimes :
              (stmt'.result = "ok"
                   /\ UpdateUser(tx, u, native, target, updated_at))
                  => users'[u].updated_at = now(tx)
        /\ \A s \in SessionIds, u \in UserIds, n \in OptCounts,
              updated_at \in OptTimes :
              (stmt'.result = "ok"
                   /\ UpdateSession(tx, s, u, n, updated_at))
                  => sessions'[s].updated_at = now(tx)
        /\ \A m \in MessageIds, s \in SessionIds, c \in Contents :
              (stmt'.result = "ok" /\ InsertMessage(tx, m, s, c))
                  => sessions'[s].updated_at = now(tx)
        /\ \A m \in MessageIds :
              DeleteMessage(tx, m)
                  => sessions'[messages[m].session_id].updated_at = now(tx)

\* No step lowers the updated_at of a session row.
NeverDecreases ==
    \A s \in DOMAIN sessions \cap DOMAIN sessions' :
        sessions'[s].updated_at >= sessions[s].updated_at

BotsOf(k) ==
    {i \in 1 .. Len(msgs) : msgs[i].sender = "bot" /\ msgs[i].submit = k}

UsersOf(k) ==
    {i \in 1 .. Len(msgs) : msgs[i].sender = "user" /\ msgs[i].submit = k}

Pending == {i \in 1 .. Len(requests) : requests[i].state = "pending"}

FailedStates == {"network_error", "http_error", "bad_json"}

\* C5: a submit (form submit or Enter) while the input is empty or only
\* whitespace sends no request and appends no message; the message list, the
\* input text and the stored session id stay as they are.
C5_BlankSubmitDoesNothing ==
    [][(Blank(inputValue) /\ (EnterKey \/ SendButton)) =>
          UNCHANGED <<msgs, inputValue, sessionId, requests, timers>>]_vars

\* Enter was pressed on a whitespace-only input after a message was sent.
C5_Witness ==
    /\ event = [kind |-> "enter", accepted |-> FALSE]
    /\ inputValue = <<"tab">>
    /\ Len(msgs) >= 1

\* The history of a failed request: one bot message, the fallback, and the
\* user's message as submitted.
FailedRequestsAnswered ==
    \A i \in 1 .. Len(requests) :
        requests[i].state \in FailedStates =>
            /\ Cardinality(BotsOf(requests[i].submit)) = 1
            /\ \A b \in BotsOf(requests[i].submit) :
                  msgs[b].text = FallbackText
            /\ Cardinality(UsersOf(requests[i].submit)) = 1
            /\ \A u \in UsersOf(requests[i].submit) :
                  msgs[u].text = requests[i].content

\* The step in which a request fails keeps the list so far and the session id.
FailureStep ==
    \A i \in 1 .. Len(requests) :
        (requests[i].state = "pending" /\ requests'[i].state \in FailedStates)
            => /\ sessionId' = sessionId
               /\ Len(msgs') = Len(msgs) + 1
               /\ SubSeq(msgs', 1, Len(msgs)) = msgs

\* C6: when the backend call of a submit fails, exactly one bot message, with
\* the fallback text, is appended for that submit and no reply; the user's
\* message of that submit stays in the history unchanged and the stored
\* session id is not modified.
C6_FailureGivesOneFallback ==
    /\ []FailedRequestsAnswered
    /\ [][FailureStep]_vars

\* A request has just failed with a non-2xx status while a session id is
\* stored.
C6_Witness ==
    /\ event = [kind |-> "answer", accepted |-> FALSE]
    /\ sessionId # "null"
    /\ \E i \in 1 .. Len(requests) : requests[i].state = "http_error"

\* C7 as stated: at most one request is in flight at any time.
C7_AtMostOneInFlight == Cardinality(Pending) <= 1

\* C7 amended: every accepted submit has at most one request, and the requests
\* in flight are those of the submits that have no bot message yet; submits
\* are accepted while a request is in flight, so requests overlap.
C7_OneRequestPerSubmit ==
    /\ \A i, j \in 1 .. Len(requests) :
          i # j => requests[i].submit # requests[j].submit
    /\ \A i \in 1 .. Len(requests) :
          i \in Pending <=> BotsOf(requests[i].submit) = {}

\* Two requests are in flight at once.
C7_Witness == Cardinality(Pending) >= 2

\* A submit with non-blank input appends the user's message, clears the input
\* and sends one request with that text.
AcceptedSubmitStep ==
    (~Blank(inputValue) /\ (EnterKey \/ SendButton)) =>
        /\ Len(msgs') = Len(msgs) + 1
        /\ SubSeq(msgs', 1, Len(msgs)) = msgs
        /\ msgs'[Len(msgs')].sender = "user"
        /\ msgs'[Len(msgs')].text = inputValue
        /\ inputValue' = <<>>
        /\ variant # "simulated" =>
              /\ Len(requests') = Len(requests) + 1
              /\ SubSeq(requests', 1, Len(requests)) = requests
              /\ requests'[Len(requests')].content = inputValue
              /\ requests'[Len(requests')].state = "pending"

\* Every submit has exactly one request; while it is pending the submit has no
\* bot message, afterwards exactly one: the reply or the fallback.
OneRequestOneAnswer ==
    variant # "simulated" =>
        \A k \in 1 .. Submits :
            /\ Cardinality({i \in 1 .. Len(requests) :
                               requests[i].submit = k}) = 1
            /\ \A i \in 1 .. Len(requests) :
                  requests[i].submit = k =>
                      /\ Cardinality(BotsOf(k)) =
                            IF requests[i].state = "pending" THEN 0 ELSE 1
                      /\ \A b \in BotsOf(k) :
                            msgs[b].kind =
                                IF requests[i].state = "ok" THEN "reply"
                                ELSE "fallback"

\* Every request sent is eventually answered by exactly one bot message.
EventuallyAnswered ==
    \A k \in 1 .. MaxSubmits :
        (variant # "simulated" /\ Submits >= k)
            ~> (Cardinality(BotsOf(k)) = 1)

\* C8: every submit with non-blank input appends the user's message, clears
\* the input and sends exactly one request, and once the request completes
\* exactly one bot message is appended for it: the reply on success, the
\* fallback on failure.
C8_SubmitSendsOnceAnsweredOnce ==
    /\ []OneRequestOneAnswer
    /\ [][AcceptedSubmitStep]_vars
    /\ EventuallyAnswered

\* Both kinds of answer have been appended: a reply for one submit and the
\* fallback for another.
C8_Witness ==
    /\ variant # "simulated"
    /\ \E i, j \in 1 .. Len(msgs) :
          msgs[i].kind = "reply" /\ msgs[j].kind = "fallback"
    /\ Pending = {}

\* The stored session id stays as it is once it is set.
StoredSessionIdKept == sessionId # "null" => sessionId' = sessionId

\* A request issued while a session id is stored carries that id.
IssuedWithStoredSessionId ==
    (sessionId # "null" /\ Len(requests') > Len(requests)) =>
        requests'[Len(requests')].session_id = sessionId

\* C11: once the client has stored a session id from a backend response, the
\* stored id never changes afterwards and every request issued after that
\* carries it, for any interleaving of submits and responses, including a
\* second submit issued before the first response arrives.
C11_SessionIdStoredOnce ==
    [][StoredSessionIdKept /\ IssuedWithStoredSessionId]_vars

\* The list of a step's next state starts with the whole list of its state.
AppendOnly ==
    /\ Len(msgs') >= Len(msgs)
    /\ SubSeq(msgs', 1, Len(msgs)) = msgs

\* Every bot message stands after the user message of its submit.
BotAfterItsUser ==
    \A j \in 1 .. Len(msgs) :
        msgs[j].sender = "bot" =>
            \E i \in 1 .. j - 1 :
                msgs[i].sender = "user" /\ msgs[i].submit = msgs[j].submit

\* The number of messages of a sender among the first n of the list.
CountOf(sender, n) ==
    Cardinality({i \in 1 .. n : msgs[i].sender = sender})

\* Every prefix of the list holds at least as many user as bot messages.
PrefixesHoldMoreUsers ==
    \A n \in 0 .. Len(msgs) : CountOf("user", n) >= CountOf("bot", n)

\* C12: the message list is append-only (no step removes, reorders or
\* rewrites an entry, so each state's list is a prefix of every later one's);
\* every bot message is appended after the user message of the submit that
\* caused it, so in every reachable state every prefix of the list holds at
\* least as many user messages as bot messages.
C12_AppendOnlyUsersBeforeBots ==
    /\ [][AppendOnly]_vars
    /\ [](BotAfterItsUser /\ PrefixesHoldMoreUsers)

\* Two submits were made before any answer and the second was answered
\* first: the list is user, user, bot of the second, bot of the first.
C12_Witness ==
    /\ Len(msgs) = 4
    /\ msgs[1].sender = "user" /\ msgs[2].sender = "user"
    /\ msgs[3].sender = "bot" /\ msgs[3].submit = 2
    /\ msgs[4].sender = "bot" /\ msgs[4].submit = 1

====
